---- MODULE Spec2Model ----
(***************************************************************************)
(* primus-rooms-metroplex-adapter: the room adapter that keeps, in a       *)
(* shared Redis store, which sparks are in which rooms, over a fleet of    *)
(* server instances (src/lib/primus-rooms-metroplex-adapter.js).           *)
(*                                                                         *)
(* Strings are sequences of atoms.  ":" and "*" are atoms of their own, so *)
(* that building a key, matching it against a glob pattern, splitting it   *)
(* on ":" and cutting a prefix off it are computed on the key's text, as   *)
(* the code and the store do.  Every other atom is a run of characters     *)
(* holding no ":" and no glob metacharacter, and no atom is a prefix or a  *)
(* suffix of another, so a match on atoms is a match on characters.  Glob  *)
(* classes ("[..]"), "?" and "\" are outside the alphabet.                 *)
(***************************************************************************)
EXTENDS Integers, Sequences, FiniteSets, Bags, TLC

----------------------------------------------------------------------------
(* Bounds of the model *)

\* Longest room list handed to broadcast.
MaxBroadcastRooms == 2

\* Server instances that may crash.
MaxCrashes == 1

----------------------------------------------------------------------------
(* Program constants *)

MAX_SPARK_FORWARDS_PER_BATCH == 50000
DEFAULT_KEYS_MATCH_SCAN_COUNT == 100
DEFAULT_ROOM_REFRESH_INTERVAL == 300000
DEFAULT_HEARTBEAT_PING_INTERVAL == 60000
\* TTL_REFRESH_DRIFT_FACTOR = 1.2, as the fraction DriftNum / DriftDen
DriftNum == 12
DriftDen == 10

\* Math.ceil(ms / 1000 * 1.2)
CeilSecondsTimesDrift(ms) == ((ms * DriftNum) + (1000 * DriftDen) - 1) \div (1000 * DriftDen)

roomSparkSetTTLSeconds == CeilSecondsTimesDrift(DEFAULT_ROOM_REFRESH_INTERVAL)
sparkRoomSetTTLSeconds == CeilSecondsTimesDrift(DEFAULT_HEARTBEAT_PING_INTERVAL)

\* The store's answer to TTL for a key that has no expiration.
NoTTL == -1

----------------------------------------------------------------------------
(* The universe: namespace, server instances, sparks, rooms *)

Colon == ":"
Star == "*"

namespace == <<"ns">>

\* metroplex addresses are URLs, which hold ":" (test: 'http://10.0.2.15:8888');
\* the instance is `${address}_${identifier}`.
AddressA == <<"//hostA", Colon, "8888">>
AddressB == <<"//hostB", Colon, "8888">>
serverInstance(address) == address \o <<"_", "1">>
InstA == serverInstance(AddressA)
InstB == serverInstance(AddressB)
Instances == {InstA, InstB}

\* A spark is a connection held by one server instance; the adapter of that
\* instance is the one that add and del are called on for it.
S1 == <<"s1">>
S2 == <<"s2">>
Sparks == {S1, S2}
Home(id) == IF id = S1 THEN InstA ELSE InstB

\* Room names are free strings; "x:r1" is a name that holds a ":".
R1 == <<"r1">>
XR1 == <<"x", Colon, "r1">>
Rooms == {R1, XR1}

\* The absent argument (null, undefined, ''): all falsy in `if (id)`, `if (room)`.
Absent == <<>>
\* What `${room}` yields for an absent room: the caller passed null or undefined.
AbsentTexts == {<<"null">>, <<"undefined">>}

\* Keys of other users of the same store: a plain one, and one of another
\* namespace laid out like the adapter's own.
UnrelatedKey == <<"unrelatedData">>
OtherNamespaceKey == <<"other", Colon, "sparks", Colon, "s1">>

----------------------------------------------------------------------------
(* Keys and patterns *)

roomSparkSetKey(inst, room) ==
    namespace \o <<Colon, "rooms", Colon>> \o inst \o <<Colon>> \o room

sparkRoomSetKey(sparkId) ==
    namespace \o <<Colon, "sparks", Colon>> \o sparkId

SparksPrefix == namespace \o <<Colon, "sparks", Colon>>

AllRoomsPattern == namespace \o <<Colon, "rooms", Colon, Star, Colon, Star>>
RoomPattern(room) == namespace \o <<Colon, "rooms", Colon, Star, Colon>> \o room
\* a sweep pattern that leaves the instance out
AnyInstanceRoomsPattern(inst) == AllRoomsPattern
OwnRoomsPattern(inst) == namespace \o <<Colon, "rooms", Colon>> \o inst \o <<Colon, Star>>
AllSparksPattern == namespace \o <<Colon, "sparks", Colon, Star>>
\* a pattern that leaves the namespace out
EveryKeyPattern == <<Star>>
NamespacePattern == namespace \o <<Colon, Star>>

\* The store's glob match of SCAN ... MATCH pattern: "*" matches any run of
\* characters, everything else matches itself.
RECURSIVE GlobMatch(_, _)
GlobMatch(p, s) ==
    IF p = <<>> THEN s = <<>>
    ELSE IF Head(p) = Star
         THEN GlobMatch(Tail(p), s) \/ (s # <<>> /\ GlobMatch(p, Tail(s)))
         ELSE s # <<>> /\ Head(s) = Head(p) /\ GlobMatch(Tail(p), Tail(s))

\* key.split(':') then parts[parts.length - 1]: the text after the last ":".
RECURSIVE LastPart(_)
LastPart(key) ==
    IF \E i \in 1..Len(key) : key[i] = Colon
    THEN LastPart(Tail(key))
    ELSE key

\* key.substring(n)
Substring(key, n) == SubSeq(key, n + 1, Len(key))

----------------------------------------------------------------------------
(* The store: key -> [val: the set's members, ttl: seconds or NoTTL].       *)
(* A set that loses its last member is removed by the store.                *)

Sadd(st, k, m) ==
    IF k \in DOMAIN st
    THEN [st EXCEPT ![k].val = @ \cup {m}]
    ELSE st @@ (k :> [val |-> {m}, ttl |-> NoTTL])

DelKeys(st, ks) == [k \in (DOMAIN st) \ ks |-> st[k]]

Srem(st, k, m) ==
    IF k \notin DOMAIN st THEN st
    ELSE IF st[k].val \ {m} = {} THEN DelKeys(st, {k})
    ELSE [st EXCEPT ![k].val = @ \ {m}]

\* an expire that sets no time-to-live
ExpireNothing(st, k, ttl) == st

Expire(st, k, ttl) ==
    IF k \in DOMAIN st THEN [st EXCEPT ![k].ttl = ttl] ELSE st

Smembers(st, k) == IF k \in DOMAIN st THEN st[k].val ELSE {}

\* srem of one member from each key of a set of keys (the order does not matter)
RECURSIVE SremEach(_, _, _)
SremEach(st, ks, m) ==
    IF ks = {} THEN st
    ELSE LET k == CHOOSE x \in ks : TRUE
         IN SremEach(Srem(st, k, m), ks \ {k}, m)

\* srem of one member m from the key keyOf(x) of each x of a set
RECURSIVE SremFromSparks(_, _, _)
SremFromSparks(st, ids, room) ==
    IF ids = {} THEN st
    ELSE LET s == CHOOSE x \in ids : TRUE
         IN SremFromSparks(Srem(st, sparkRoomSetKey(s), room), ids \ {s}, room)

\* expire of each key of a set of keys
RECURSIVE ExpireEach(_, _, _)
ExpireEach(st, ks, ttl) ==
    IF ks = {} THEN st
    ELSE LET k == CHOOSE x \in ks : TRUE
         IN ExpireEach(Expire(st, k, ttl), ks \ {k}, ttl)

\* A whole cursor scan that nothing interleaves: the keys matching the pattern.
keysMatchingPattern(st, pattern) == {k \in DOMAIN st : GlobMatch(pattern, k)}

\* sscan of each key, the member lists concatenated with no deduplication:
\* a bag, since the store's scan order is not fixed.
RECURSIVE setMembersForKeys(_, _)
setMembersForKeys(st, ks) ==
    IF ks = {} THEN EmptyBag
    ELSE LET k == CHOOSE x \in ks : TRUE
         IN SetToBag(Smembers(st, k)) (+) setMembersForKeys(st, ks \ {k})

----------------------------------------------------------------------------
(* What the read operations answer on a store that nothing else touches     *)
(* while they scan                                                          *)

\* get(id): smembers of the spark's key; get(absent): the last ":"-part of
\* every room key, uniq'ed.
GetResult(st, id) ==
    IF id # Absent
    THEN Smembers(st, sparkRoomSetKey(id))
    ELSE {LastPart(k) : k \in keysMatchingPattern(st, AllRoomsPattern)}

\* clients(room): the members of every key matching `${ns}:rooms:*:${room}`.
ClientsResult(st, room) ==
    setMembersForKeys(st, keysMatchingPattern(st, RoomPattern(room)))

\* isEmpty that looks at the room key of one instance only
IsEmptyOneInstance(st, room) == roomSparkSetKey(InstA, room) \notin DOMAIN st

\* isEmpty(room): no key matches.
IsEmptyResult(st, room) == keysMatchingPattern(st, RoomPattern(room)) = {}

----------------------------------------------------------------------------
(* The batches (redis.multi() ... exec) of the write operations             *)

\* add that leaves the room key out of its batch
AddBatchSparkKeyOnly(st, inst, id, room) ==
    LET sk == sparkRoomSetKey(id)
    IN Expire(Sadd(st, sk, room), sk, sparkRoomSetTTLSeconds)

\* add: sadd + expire of the room key, sadd + expire of the spark key
AddBatch(st, inst, id, room) ==
    LET rk == roomSparkSetKey(inst, room)
        sk == sparkRoomSetKey(id)
        a == Sadd(st, rk, id)
        b == Expire(a, rk, roomSparkSetTTLSeconds)
        c == Sadd(b, sk, room)
    IN Expire(c, sk, sparkRoomSetTTLSeconds)

\* del with a room: srem from the room key of this instance, srem from the spark key
DelBatch(st, inst, id, room) ==
    Srem(Srem(st, roomSparkSetKey(inst, room), id), sparkRoomSetKey(id), room)

\* del without a room: srem from the key built from the absent room, srem from
\* the key of every room read from the spark's set, del of the spark key
DelAllBatch(st, inst, id, absentText, roomsForUser) ==
    LET a == Srem(st, roomSparkSetKey(inst, absentText), id)
        b == SremEach(a, {roomSparkSetKey(inst, r) : r \in roomsForUser}, id)
    IN DelKeys(b, {sparkRoomSetKey(id)})

\* empty that deletes the room keys and leaves the sparks' sets as they are
EmptyBatchKeysOnly(st, room, roomKeys, sparkIds) == DelKeys(st, roomKeys)

\* empty: del of the room keys read, srem of the room from each spark read
EmptyBatch(st, room, roomKeys, sparkIds) ==
    SremFromSparks(DelKeys(st, roomKeys), sparkIds, room)

\* The store rejects a DEL that names no key; a batch holding one is discarded
\* whole at exec.
DelRejected(ks) == ks = {}

\* a sweep that re-arms nothing
RefreshNothing(st, roomKeys, ttl) == st

\* the periodic sweep: expire of each of the instance's own room keys
RefreshBatch(st, roomKeys, ttl) == ExpireEach(st, roomKeys, ttl)

----------------------------------------------------------------------------
(* broadcast: transformer, flatten, without, chunk                          *)

\* The data handed to broadcast: an array of strings or a string (of characters).
ArrayData == [kind |-> "array", items |-> <<(<<"x">>)>>, text |-> <<>>]
StringData == [kind |-> "string", items |-> <<>>, text |-> <<"y", "z">>]
Undefined == [kind |-> "undefined", items |-> <<>>, text |-> <<>>]
Str(t) == [kind |-> "string", items |-> <<>>, text |-> t]

\* Array.prototype.join(',') as `${array}` computes it
RECURSIVE Join(_)
Join(items) ==
    IF items = <<>> THEN <<>>
    ELSE IF Len(items) = 1 THEN items[1]
    ELSE items[1] \o <<",">> \o Join(Tail(items))

\* "default" is data => data[0]; "custom" is the tests' data => `${data}_transformed`
Transform(transformer, data) ==
    IF transformer = "default"
    THEN IF data.kind = "array"
         THEN IF data.items = <<>> THEN Undefined ELSE Str(data.items[1])
         ELSE IF data.text = <<>> THEN Undefined ELSE Str(<<data.text[1]>>)
    ELSE IF data.kind = "array"
         THEN Str(Join(data.items) \o <<"_transformed">>)
         ELSE Str(data.text \o <<"_transformed">>)

\* flatten(results) of async.map(opts.rooms, clients)
RECURSIVE FlattenClients(_, _)
FlattenClients(st, rooms) ==
    IF rooms = <<>> THEN EmptyBag
    ELSE ClientsResult(st, Head(rooms)) (+) FlattenClients(st, Tail(rooms))

\* without that removes nothing
WithoutNothing(ids, except) == ids

\* without(sparkIds, ...except): every occurrence of an excepted id removed
Without(ids, except) == [x \in (DOMAIN ids) \ except |-> ids[x]]

\* the spark keys taken whole, the prefix not cut off
AllSparkIdsWholeKey(st) == SetToBag(keysMatchingPattern(st, AllSparksPattern))

\* keys.map(key => key.substring(`${ns}:sparks:`.length))
AllSparkIds(st) ==
    SetToBag({Substring(k, Len(SparksPrefix)) : k \in keysMatchingPattern(st, AllSparksPattern)})

\* chunk(sparkIds, MAX_SPARK_FORWARDS_PER_BATCH) and one forward call per chunk:
\* the possible call lists (the order of the ids within the list is the store's).
RECURSIVE sendToSparks(_, _)
sendToSparks(ids, data) ==
    IF BagCardinality(ids) = 0 THEN {<<>>}
    ELSE IF BagCardinality(ids) <= MAX_SPARK_FORWARDS_PER_BATCH
         THEN {<<[ids |-> ids, data |-> data]>>}
         ELSE UNION {{<<[ids |-> c, data |-> data]>> \o rest :
                         rest \in sendToSparks(ids (-) c, data)} :
                     c \in {b \in SubBag(ids) :
                               BagCardinality(b) = MAX_SPARK_FORWARDS_PER_BATCH}}

\* The ids the forwarding primitive is called with by broadcast.
BroadcastIds(st, rooms, except) ==
    IF Len(rooms) > 0
    THEN Without(FlattenClients(st, rooms), except)
    ELSE AllSparkIds(st)

----------------------------------------------------------------------------
(* State *)

VARIABLES
    store,   \* the shared Redis store
    up,      \* the server instances that are running
    last,    \* the operation that completed last, with its arguments and its
             \* answer: whether its callback was called, the round trip that
             \* failed, the batch it sent and the commands of it that failed
    timers,  \* seconds until each server's next sweep and each spark's next
             \* heartbeat, seconds each server has been down, the transport's
             \* heartbeat interval
    scan,    \* the cursor scan of keys in progress: its pattern and batch
             \* size, the cursor, the keys gathered so far
    connected, \* the sparks whose connection is open
    pend     \* the del or empty that has read and not yet written: what it
             \* read, the store as it was then, the add made since

vars == <<store, up, last, timers, scan, connected, pend>>

NoLast ==
    [op |-> "init", inst |-> <<>>, id |-> <<>>, room |-> <<>>, rooms |-> <<>>,
     except |-> {}, data |-> Undefined, transformer |-> "default",
     err |-> FALSE, read |-> {}, names |-> {}, ids |-> EmptyBag,
     flag |-> FALSE, calls |-> <<>>,
     called |-> TRUE, fault |-> "none", cmds |-> <<>>, failing |-> {},
     message |-> <<>>]

\* Math.floor(this._roomSparkSetTTLSeconds / TTL_REFRESH_DRIFT_FACTOR * 1000):
\* the period of the sweep's setInterval, in milliseconds
roomRefreshIntervalMs == (roomSparkSetTTLSeconds * 1000 * DriftDen) \div DriftNum

\* Timers of servers and sparks that all start together, the transport's
\* heartbeat interval being pingInterval milliseconds.
TimersAtStart(pingInterval) ==
    [sweep |-> [inst \in Instances |-> roomRefreshIntervalMs \div 1000],
     beat |-> [id \in Sparks |-> pingInterval \div 1000],
     down |-> [inst \in Instances |-> 0],
     ping |-> pingInterval]

\* A cursor as the code holds it: the number 0 it starts from, then the
\* string of the store's reply, '0' when the iteration is complete.
NumberZero == [type |-> "number", digits |-> "0"]
StringZero == [type |-> "string", digits |-> "0"]
StringNonZero == [type |-> "string", digits |-> "n"]

NoScan ==
    [active |-> FALSE, pattern |-> <<>>, count |-> 0, cursor |-> NumberZero,
     keys |-> EmptyBag, visited |-> {}, atStart |-> {}, repeats |-> 0]

\* No del or empty is between its read and its write.
NoPend == [op |-> "none", inst |-> <<>>, id |-> <<>>, room |-> <<>>,
           roomsForUser |-> {}, roomKeys |-> {}, sparkIds |-> {},
           before |-> <<>>, adds |-> <<>>]

InitialStore ==
    (UnrelatedKey :> [val |-> {<<"value">>}, ttl |-> NoTTL])
    @@ (OtherNamespaceKey :> [val |-> {R1}, ttl |-> NoTTL])

Init ==
    /\ store = InitialStore
    /\ up = Instances
    /\ last = NoLast
    /\ timers = TimersAtStart(DEFAULT_HEARTBEAT_PING_INTERVAL)
    /\ scan = NoScan
    /\ connected = Sparks
    /\ pend = NoPend

----------------------------------------------------------------------------
(* Write operations.  Each is the whole handler, its round trips with       *)
(* nothing of another client between them.                                  *)

add(inst, id, room) ==
    /\ inst \in up
    /\ Home(id) = inst
    /\ store' = AddBatch(store, inst, id, room)
    /\ last' = [NoLast EXCEPT !.op = "add", !.inst = inst, !.id = id, !.room = room]
    /\ UNCHANGED <<up, timers, scan, connected, pend>>

\* del(id, room, callback); absentText is `${room}` of the absent room
del(inst, id, room, absentText) ==
    /\ inst \in up
    /\ Home(id) = inst
    /\ IF room # Absent
       THEN /\ store' = DelBatch(store, inst, id, room)
            /\ last' = [NoLast EXCEPT !.op = "del", !.inst = inst, !.id = id,
                                      !.room = room]
       ELSE LET roomsForUser == Smembers(store, sparkRoomSetKey(id))
            IN /\ store' = DelAllBatch(store, inst, id, absentText, roomsForUser)
               /\ last' = [NoLast EXCEPT !.op = "del", !.inst = inst, !.id = id,
                                         !.room = Absent, !.read = roomsForUser]
    /\ UNCHANGED <<up, timers, scan, connected, pend>>

empty(inst, room) ==
    /\ inst \in up
    /\ LET roomKeys == keysMatchingPattern(store, RoomPattern(room))
           sparkIds == BagToSet(setMembersForKeys(store, roomKeys))
       IN /\ store' = IF DelRejected(roomKeys) THEN store
                      ELSE EmptyBatch(store, room, roomKeys, sparkIds)
          /\ last' = [NoLast EXCEPT !.op = "empty", !.room = room, !.read = sparkIds,
                                    !.err = DelRejected(roomKeys)]
    /\ UNCHANGED <<up, timers, scan, connected, pend>>

clear(inst) ==
    /\ inst \in up
    /\ LET keys == keysMatchingPattern(store, NamespacePattern)
       IN /\ store' = IF DelRejected(keys) THEN store ELSE DelKeys(store, keys)
          /\ last' = [NoLast EXCEPT !.op = "clear", !.err = DelRejected(keys)]
    /\ UNCHANGED <<up, timers, scan, connected, pend>>

----------------------------------------------------------------------------
(* Read operations and broadcast *)

get(id) ==
    /\ up # {}
    /\ last' = [NoLast EXCEPT !.op = "get", !.id = id, !.names = GetResult(store, id)]
    /\ UNCHANGED <<store, up, timers, scan, connected, pend>>

clients(room) ==
    /\ up # {}
    /\ last' = [NoLast EXCEPT !.op = "clients", !.room = room,
                              !.ids = ClientsResult(store, room)]
    /\ UNCHANGED <<store, up, timers, scan, connected, pend>>

isEmpty(room) ==
    /\ up # {}
    /\ last' = [NoLast EXCEPT !.op = "isEmpty", !.room = room,
                              !.flag = IsEmptyResult(store, room)]
    /\ UNCHANGED <<store, up, timers, scan, connected, pend>>

broadcast(data, rooms, except, transformer) ==
    /\ up # {}
    /\ \E calls \in sendToSparks(BroadcastIds(store, rooms, except),
                                 Transform(transformer, data)) :
         last' = [NoLast EXCEPT !.op = "broadcast", !.data = data, !.rooms = rooms,
                                !.except = except, !.transformer = transformer,
                                !.calls = calls]
    /\ UNCHANGED <<store, up, timers, scan, connected, pend>>

----------------------------------------------------------------------------
(* TTL refreshers, expiry, crashes *)

\* one tick of the setInterval of _initializeRoomSetTTLRefresher
refreshRoomSetsTTL(inst) ==
    /\ inst \in up
    /\ store' = RefreshBatch(store, keysMatchingPattern(store, OwnRoomsPattern(inst)),
                             roomSparkSetTTLSeconds)
    /\ last' = [NoLast EXCEPT !.op = "sweep", !.inst = inst]
    /\ UNCHANGED <<up, timers, scan, connected, pend>>

\* a spark's 'heartbeat' event
heartbeat(id) ==
    /\ Home(id) \in up
    /\ id \in connected
    /\ store' = Expire(store, sparkRoomSetKey(id), sparkRoomSetTTLSeconds)
    /\ last' = [NoLast EXCEPT !.op = "heartbeat", !.id = id]
    /\ UNCHANGED <<up, timers, scan, connected, pend>>

\* A key whose time-to-live lapses is removed by the store.  A spark's key is
\* re-armed only by that spark's heartbeats, which the transport may space
\* wider than the fixed TTL or stop; a room key is re-armed by the sweep of
\* its own instance, which runs as long as that instance does.
CanLapse(k) ==
    \/ GlobMatch(AllSparksPattern, k)
    \/ \E inst \in Instances \ up : GlobMatch(OwnRoomsPattern(inst), k)

keyExpires(k) ==
    /\ k \in DOMAIN store
    /\ store[k].ttl # NoTTL
    /\ CanLapse(k)
    /\ store' = DelKeys(store, {k})
    /\ last' = [NoLast EXCEPT !.op = "expire"]
    /\ UNCHANGED <<up, timers, scan, connected, pend>>

\* A server instance stops: no more operations, sweeps or heartbeats from it.
crash(inst) ==
    /\ inst \in up
    /\ Cardinality(Instances \ up) < MaxCrashes
    /\ up' = up \ {inst}
    /\ last' = [NoLast EXCEPT !.op = "crash", !.inst = inst]
    /\ UNCHANGED <<store, timers, scan, connected, pend>>

----------------------------------------------------------------------------
(* Inputs and the specifications *)

RoomLists == UNION {[1..n -> Rooms] : n \in 0..MaxBroadcastRooms}
ExceptSets == {{}, {S1}}
BroadcastInputs ==
    {<<ArrayData, "default">>, <<StringData, "custom">>, <<StringData, "default">>}

Writes ==
    \/ \E inst \in Instances, id \in Sparks, room \in Rooms : add(inst, id, room)
    \/ \E inst \in Instances, id \in Sparks, room \in Rooms \cup {Absent},
          absentText \in AbsentTexts : del(inst, id, room, absentText)
    \/ \E inst \in Instances, room \in Rooms : empty(inst, room)
    \/ \E inst \in Instances : clear(inst)
    \/ \E inst \in Instances : refreshRoomSetsTTL(inst)
    \/ \E id \in Sparks : heartbeat(id)
    \/ \E k \in DOMAIN store : keyExpires(k)
    \/ \E inst \in Instances : crash(inst)

Next ==
    \/ Writes
    \/ \E id \in Sparks \cup {Absent} : get(id)
    \/ \E room \in Rooms : clients(room)
    \/ \E room \in Rooms : isEmpty(room)

Spec == Init /\ [][Next]_vars

NextBroadcast ==
    \/ Writes
    \/ \E in \in BroadcastInputs, rooms \in RoomLists, except \in ExceptSets :
           broadcast(in[1], rooms, except, in[2])

SpecBroadcast == Init /\ [][NextBroadcast]_vars

----------------------------------------------------------------------------
(* Time.  A key's ttl is the seconds it has left; the sweep of a running     *)
(* server fires when its setInterval period has passed and the heartbeat of *)
(* a connected spark when the transport's interval has; time does not pass  *)
(* while one of them is due.                                                *)

\* The longest stretch of time that passes with no operation in it, seconds.
TickSeconds == 60

\* How many ticks before the first server the second one may have started.
MaxStartLeadTicks == 2

\* Heartbeat intervals the transport may be configured with, milliseconds:
\* the adapter's own default, and twice that.
PingIntervals == {DEFAULT_HEARTBEAT_PING_INTERVAL, 2 * DEFAULT_HEARTBEAT_PING_INTERVAL}

\* Time a server has been down is counted up to here.
MaxDown == roomSparkSetTTLSeconds + TickSeconds

Min(S) == CHOOSE x \in S : \A y \in S : x <= y

\* The timers of what is running: sweeps of servers, heartbeats of their sparks.
LiveTimers ==
    {timers.sweep[inst] : inst \in up}
        \cup {timers.beat[id] : id \in {s \in connected : Home(s) \in up}}

\* The store d seconds later: a key whose time-to-live has run out is gone.
Elapse(st, d) ==
    LET kept == {k \in DOMAIN st : st[k].ttl = NoTTL \/ st[k].ttl > d}
    IN [k \in kept |-> IF st[k].ttl = NoTTL THEN st[k]
                       ELSE [st[k] EXCEPT !.ttl = @ - d]]

\* Time passes, up to the next sweep or heartbeat that is due.
tick ==
    /\ \A t \in LiveTimers : t > 0
    /\ LET d == Min({TickSeconds} \cup LiveTimers)
       IN /\ store' = Elapse(store, d)
          /\ timers' =
               [timers EXCEPT
                  !.sweep = [inst \in Instances |->
                               IF inst \in up THEN @[inst] - d ELSE @[inst]],
                  !.beat = [id \in Sparks |->
                               IF Home(id) \in up /\ id \in connected
                               THEN @[id] - d ELSE @[id]],
                  !.down = [inst \in Instances |->
                               IF inst \in up THEN 0 ELSE Min({@[inst] + d, MaxDown})]]
          /\ last' = [NoLast EXCEPT !.op = "tick",
                                    !.names = DOMAIN store \ DOMAIN Elapse(store, d)]
    /\ UNCHANGED <<up, scan, connected, pend>>

\* setInterval(() => this._refreshRoomSetsTTL(ttl, ...), period)
roomSetTTLRefresher(inst) ==
    /\ inst \in up
    /\ timers.sweep[inst] = 0
    /\ store' = RefreshBatch(store, keysMatchingPattern(store, OwnRoomsPattern(inst)),
                             roomSparkSetTTLSeconds)
    /\ timers' = [timers EXCEPT !.sweep[inst] = roomRefreshIntervalMs \div 1000]
    /\ last' = [NoLast EXCEPT !.op = "sweep", !.inst = inst]
    /\ UNCHANGED <<up, scan, connected, pend>>

\* spark.on('heartbeat', ...) of a connected spark, every ping interval
sparkHeartbeat(id) ==
    /\ Home(id) \in up
    /\ id \in connected
    /\ timers.beat[id] = 0
    /\ store' = Expire(store, sparkRoomSetKey(id), sparkRoomSetTTLSeconds)
    /\ timers' = [timers EXCEPT !.beat[id] = timers.ping \div 1000]
    /\ last' = [NoLast EXCEPT !.op = "heartbeat", !.id = id]
    /\ UNCHANGED <<up, scan, connected, pend>>

InitTime ==
    /\ store = InitialStore
    /\ up = Instances
    /\ last = NoLast
    /\ \E pingInterval \in PingIntervals, lead \in 0..MaxStartLeadTicks :
          timers = [TimersAtStart(pingInterval) EXCEPT
                       !.sweep[InstB] = @ - lead * TickSeconds]
    /\ scan = NoScan
    /\ connected = Sparks
    /\ pend = NoPend

\* The rooms of the specifications that vary time or failures, not rooms.
OneRoom == {R1}

NextTime ==
    \/ \E inst \in Instances, id \in Sparks, room \in OneRoom : add(inst, id, room)
    \/ \E inst \in Instances, id \in Sparks, room \in OneRoom :
          del(inst, id, room, <<"undefined">>)
    \/ \E inst \in Instances : crash(inst)
    \/ \E inst \in Instances : roomSetTTLRefresher(inst)
    \/ \E id \in Sparks : sparkHeartbeat(id)
    \/ tick

SpecTime == InitTime /\ [][NextTime]_vars

----------------------------------------------------------------------------
(* Failures.  A round trip to the store (a command, a scan call, an exec) may *)
(* fail as a whole; inside a batch that was executed each command has its    *)
(* own outcome, [err, value], and a command that failed changed nothing.     *)

Sadd_(k, m) == [cmd |-> "sadd", key |-> k, arg |-> m]
Srem_(k, m) == [cmd |-> "srem", key |-> k, arg |-> m]
Expire_(k, ttl) == [cmd |-> "expire", key |-> k, arg |-> ttl]
Del_(ks) == [cmd |-> "del", key |-> ks, arg |-> <<>>]

\* The elements of a set in some order (forEach over what the store answered).
RECURSIVE SetToSeq(_)
SetToSeq(S) ==
    IF S = {} THEN <<>>
    ELSE LET x == CHOOSE y \in S : TRUE IN <<x>> \o SetToSeq(S \ {x})

\* The commands queued by add, del and empty, in the order they are queued.
AddCommands(inst, id, room) ==
    <<Sadd_(roomSparkSetKey(inst, room), id),
      Expire_(roomSparkSetKey(inst, room), roomSparkSetTTLSeconds),
      Sadd_(sparkRoomSetKey(id), room),
      Expire_(sparkRoomSetKey(id), sparkRoomSetTTLSeconds)>>

DelCommands(inst, id, room) ==
    <<Srem_(roomSparkSetKey(inst, room), id), Srem_(sparkRoomSetKey(id), room)>>

DelAllCommands(inst, id, absentText, roomsForUser) ==
    <<Srem_(roomSparkSetKey(inst, absentText), id)>>
        \o [i \in 1..Cardinality(roomsForUser) |->
               Srem_(roomSparkSetKey(inst, SetToSeq(roomsForUser)[i]), id)]
        \o <<Del_({sparkRoomSetKey(id)})>>

EmptyCommands(room, roomKeys, sparkIds) ==
    <<Del_(roomKeys)>>
        \o [i \in 1..Cardinality(sparkIds) |->
               Srem_(sparkRoomSetKey(SetToSeq(sparkIds)[i]), room)]

\* One command applied by the store.
Apply(st, c) ==
    CASE c.cmd = "sadd" -> Sadd(st, c.key, c.arg)
      [] c.cmd = "srem" -> Srem(st, c.key, c.arg)
      [] c.cmd = "expire" -> Expire(st, c.key, c.arg)
      [] c.cmd = "del" -> DelKeys(st, c.key)

\* exec of a batch of which the commands at the indices of failing fail: each
\* of the others is applied, in order.
RECURSIVE ExecFrom(_, _, _, _)
ExecFrom(st, cmds, failing, i) ==
    IF i > Len(cmds) THEN st
    ELSE ExecFrom(IF i \in failing THEN st ELSE Apply(st, cmds[i]), cmds, failing, i + 1)

\* an exec that applies nothing once a command of the batch has failed
ExecAllOrNothing(st, cmds, failing) ==
    IF failing = {} THEN ExecFrom(st, cmds, failing, 1) ELSE st

Exec(st, cmds, failing) == ExecFrom(st, cmds, failing, 1)

\* results.map(result => result[0]): the error slot of each command, <<>> for null
ErrorSlots(cmds, failing) ==
    [i \in 1..Len(cmds) |-> IF i \in failing THEN <<cmds[i].cmd, i>> ELSE <<>>]

\* compact(errors)
Compact(errors) == SelectSeq(errors, LAMBDA e : e # <<>>)

\* _validateMultiResults: one error made of every error of the batch, or none
validateMultiResults(cmds, failing) ==
    LET errors == ErrorSlots(cmds, failing)
    IN IF \E i \in 1..Len(errors) : errors[i] # <<>>
       THEN [err |-> TRUE, message |-> Compact(errors)]
       ELSE [err |-> FALSE, message |-> <<>>]

\* What an operation that sent a batch leaves: the store after exec, the
\* callback called once with what _validateMultiResults made of the results.
Batched(op, inst, id, room, cmds, failing) ==
    /\ failing \in SUBSET (1..Len(cmds))
    /\ failing # {}
    /\ store' = Exec(store, cmds, failing)
    /\ last' = [NoLast EXCEPT !.op = op, !.inst = inst, !.id = id, !.room = room,
                              !.cmds = cmds, !.failing = failing,
                              !.err = validateMultiResults(cmds, failing).err,
                              !.message = validateMultiResults(cmds, failing).message]
    /\ UNCHANGED <<up, timers, scan, connected, pend>>

\* add, del and empty whose batch was executed with some commands failing
addPartly(inst, id, room, failing) ==
    /\ inst \in up
    /\ Home(id) = inst
    /\ Batched("add", inst, id, room, AddCommands(inst, id, room), failing)

delPartly(inst, id, room, absentText, failing) ==
    /\ inst \in up
    /\ Home(id) = inst
    /\ IF room # Absent
       THEN Batched("del", inst, id, room, DelCommands(inst, id, room), failing)
       ELSE Batched("del", inst, id, Absent,
                    DelAllCommands(inst, id, absentText,
                                   Smembers(store, sparkRoomSetKey(id))),
                    failing)

emptyPartly(inst, room, failing) ==
    /\ inst \in up
    /\ LET roomKeys == keysMatchingPattern(store, RoomPattern(room))
           sparkIds == BagToSet(setMembersForKeys(store, roomKeys))
       IN /\ ~DelRejected(roomKeys)
          /\ Batched("empty", inst, Absent, room,
                     EmptyCommands(room, roomKeys, sparkIds), failing)

\* The round trips each operation makes, in order.
RoundTrips(op, id, room, rooms) ==
    CASE op = "add" -> <<"exec">>
      [] op = "get" -> IF id # Absent THEN <<"smembers">> ELSE <<"scan">>
      [] op = "del" -> IF room # Absent THEN <<"exec">> ELSE <<"smembers", "exec">>
      [] op = "clients" -> <<"scan", "sscan">>
      [] op = "empty" -> <<"scan", "sscan", "exec">>
      [] op = "isEmpty" -> <<"scan">>
      [] op = "clear" -> <<"scan", "del">>
      [] op = "broadcast" -> IF Len(rooms) > 0 THEN <<"scan", "sscan", "forward">>
                             ELSE <<"scan", "forward">>

\* Whether the code hands the error of a failed round trip to the callback:
\* `if (err) return callback(err)` everywhere but in broadcast without rooms,
\* whose scan callback has `if (err) return`.
CallbackOnError(op, rooms, step) ==
    ~(op = "broadcast" /\ Len(rooms) = 0 /\ step = "scan")

\* An operation one of whose round trips fails: nothing after it is sent.
\* The round trips before it were reads, so the store is as it was.
operationFails(op, id, room, rooms, n) ==
    /\ up # {}
    /\ n \in 1..Len(RoundTrips(op, id, room, rooms))
    /\ LET step == RoundTrips(op, id, room, rooms)[n]
       IN last' = [NoLast EXCEPT !.op = op, !.id = id, !.room = room, !.rooms = rooms,
                                 !.fault = step,
                                 !.called = CallbackOnError(op, rooms, step),
                                 !.err = CallbackOnError(op, rooms, step)]
    /\ UNCHANGED <<store, up, timers, scan, connected, pend>>

Operations == {"add", "get", "del", "clients", "empty", "isEmpty", "clear", "broadcast"}

FailingInputs ==
    {<<op, id, room, rooms>> \in Operations \X (Sparks \cup {Absent})
                                   \X (OneRoom \cup {Absent}) \X {<<>>, <<R1>>} :
        /\ (op \in {"add"}) => (id # Absent /\ room # Absent)
        /\ (op = "del") => id # Absent
        /\ (op \in {"clients", "empty", "isEmpty"}) => (id = Absent /\ room # Absent)
        /\ (op = "get") => room = Absent
        /\ (op \in {"clear", "broadcast"}) => (id = Absent /\ room = Absent)
        /\ (op # "broadcast") => rooms = <<>>}

NextErrors ==
    \/ \E inst \in Instances, id \in Sparks, room \in OneRoom : add(inst, id, room)
    \/ \E inst \in Instances, id \in Sparks, room \in OneRoom \cup {Absent} :
          del(inst, id, room, <<"undefined">>)
    \/ \E inst \in Instances, room \in OneRoom : empty(inst, room)
    \/ \E inst \in Instances, id \in Sparks, room \in OneRoom,
          failing \in SUBSET (1..4) : addPartly(inst, id, room, failing)
    \/ \E inst \in Instances, id \in Sparks, room \in OneRoom \cup {Absent},
          failing \in SUBSET (1..4) : delPartly(inst, id, room, <<"undefined">>, failing)
    \/ \E inst \in Instances, room \in OneRoom,
          failing \in SUBSET (1..3) : emptyPartly(inst, room, failing)
    \/ \E in \in FailingInputs, n \in 1..3 : operationFails(in[1], in[2], in[3], in[4], n)

SpecErrors == Init /\ [][NextErrors]_vars

----------------------------------------------------------------------------
(* The cursor scan of _keysMatchingPattern, call by call.  The store walks  *)
(* its keys; a call inspects some of those it has not yet inspected, at     *)
(* most count of them, and answers the ones that match together with the    *)
(* next cursor.  A key that was there when the scan began is inspected      *)
(* before the cursor comes back to '0'; a key added meanwhile may be or not; *)
(* a key already answered may be answered again.                            *)

\* The small batch sizes tried, beside the default one.
MaxSmallScanCount == 2

\* How many times in one scan the store answers a key it answered before.
MaxRepeats == 1

ScanCounts == (1..MaxSmallScanCount) \cup {DEFAULT_KEYS_MATCH_SCAN_COUNT}

ScanPatterns == {NamespacePattern, AllSparksPattern, RoomPattern(R1)}

Matching(pattern, ks) == SetToBag({k \in ks : GlobMatch(pattern, k)})

\* The answers the store may give to SCAN cursor MATCH pattern COUNT count.
ScanReplies(st, sc) ==
    LET todo == (DOMAIN st) \ sc.visited
    IN {[cursor |-> c,
         keys |-> Matching(sc.pattern, batch) (+) Matching(sc.pattern, again),
         visited |-> sc.visited \cup batch,
         repeats |-> sc.repeats + Cardinality(again)] :
           <<batch, again, c>> \in
              {x \in (SUBSET todo) \X (SUBSET sc.visited) \X {StringZero, StringNonZero} :
                  /\ Cardinality(x[1]) <= sc.count
                  /\ (todo # {}) => (x[1] # {})
                  /\ Cardinality(x[2]) <= 1
                  /\ sc.repeats + Cardinality(x[2]) <= MaxRepeats
                  /\ (x[3] = StringZero) => (sc.atStart \subseteq sc.visited \cup x[1])
                  /\ (x[3] = StringNonZero) => (todo \ x[1] # {})}}

\* _keysMatchingPattern(pattern, count, callback): cursor = 0, keys = []
keysMatchingPatternStart(pattern, count) ==
    /\ up # {}
    /\ ~scan.active
    /\ scan' = [NoScan EXCEPT !.active = TRUE, !.pattern = pattern, !.count = count,
                              !.atStart = DOMAIN store]
    /\ last' = [NoLast EXCEPT !.op = "scanStart"]
    /\ UNCHANGED <<store, up, timers, connected, pend>>

\* One turn of the doWhilst: a scan call, cursor = newCursor,
\* keys.push(...newKeys), then the test cursor !== '0'; when it fails,
\* callback(null, keys).
keysMatchingPatternCall ==
    /\ scan.active
    /\ \E reply \in ScanReplies(store, scan) :
         /\ scan' = [scan EXCEPT !.cursor = reply.cursor,
                                 !.keys = @ (+) reply.keys,
                                 !.visited = reply.visited,
                                 !.repeats = reply.repeats,
                                 !.active = (reply.cursor # StringZero)]
         /\ last' = [NoLast EXCEPT
                        !.op = IF reply.cursor # StringZero THEN "scanCall" ELSE "scan"]
    /\ UNCHANGED <<store, up, timers, connected, pend>>

NextScan ==
    \/ \E inst \in Instances, id \in Sparks, room \in OneRoom : add(inst, id, room)
    \/ \E pattern \in ScanPatterns, count \in ScanCounts :
          keysMatchingPatternStart(pattern, count)
    \/ keysMatchingPatternCall

SpecScan == Init /\ [][NextScan]_vars

----------------------------------------------------------------------------
(* Connections that close.  Heartbeats come from the sparks that are         *)
(* connected (primus.on('connection', spark => spark.on('heartbeat', ...))); *)
(* a connection may close with no del made for its spark.  The sweeps, the   *)
(* heartbeats and the passing of time go on for ever.                        *)

disconnect(id) ==
    /\ Home(id) \in up
    /\ id \in connected
    /\ connected' = connected \ {id}
    /\ last' = [NoLast EXCEPT !.op = "disconnect", !.id = id]
    /\ UNCHANGED <<store, up, timers, scan, pend>>

NextHeal ==
    \/ \E inst \in Instances, id \in connected, room \in OneRoom : add(inst, id, room)
    \/ \E inst \in Instances, id \in connected, room \in OneRoom :
          del(inst, id, room, <<"undefined">>)
    \/ \E id \in Sparks : disconnect(id)
    \/ \E inst \in Instances : crash(inst)
    \/ \E inst \in Instances : roomSetTTLRefresher(inst)
    \/ \E id \in Sparks : sparkHeartbeat(id)
    \/ tick

\* setInterval fires while the server runs, the transport emits heartbeats
\* while the spark is connected, and time passes.
FairHeal ==
    /\ WF_vars(tick)
    /\ \A inst \in Instances : WF_vars(roomSetTTLRefresher(inst))
    /\ \A id \in Sparks : WF_vars(sparkHeartbeat(id))

SpecHeal == Init /\ [][NextHeal]_vars /\ FairHeal

----------------------------------------------------------------------------
(* Rooms whose name is the text of an absent room.  del(id) with no room     *)
(* builds a room key from `${undefined}`, which is the key of the room named *)
(* 'undefined'.                                                              *)

UndefinedRoom == <<"undefined">>
RoomsWithUnset == {R1, UndefinedRoom}

NextUnset ==
    \/ \E inst \in Instances, id \in Sparks, room \in RoomsWithUnset : add(inst, id, room)
    \/ \E inst \in Instances, id \in Sparks, room \in RoomsWithUnset \cup {Absent} :
          del(inst, id, room, UndefinedRoom)
    \/ \E id \in Sparks : heartbeat(id)
    \/ \E k \in DOMAIN store : keyExpires(k)

SpecUnset == Init /\ [][NextUnset]_vars

----------------------------------------------------------------------------
(* del with no room and empty, round trip by round trip.  Each reads         *)
(* (smembers; scan and sscan) and sends its batch from the callback of the   *)
(* read, so a batch of another operation may reach the store in between.     *)

\* How many adds reach the store between the read and the write.
MaxInterleavedAdds == 1

\* A second room with a plain name, and a second spark of the second server.
R2 == <<"r2">>
S3 == <<"s3">>
RaceRooms == {R1, R2}
RaceSparks == Sparks \cup {S3}

\* del(id) up to the answer of smembers
delRead(inst, id) ==
    /\ inst \in up
    /\ Home(id) = inst
    /\ pend.op = "none"
    /\ pend' = [NoPend EXCEPT !.op = "del", !.inst = inst, !.id = id,
                              !.roomsForUser = Smembers(store, sparkRoomSetKey(id)),
                              !.before = store]
    /\ last' = [NoLast EXCEPT !.op = "delRead", !.inst = inst, !.id = id]
    /\ UNCHANGED <<store, up, timers, scan, connected>>

\* the callback of smembers: the batch built from the rooms read, and exec
delWrite(absentText) ==
    /\ pend.op = "del"
    /\ store' = DelAllBatch(store, pend.inst, pend.id, absentText, pend.roomsForUser)
    /\ last' = [NoLast EXCEPT !.op = "del", !.inst = pend.inst, !.id = pend.id,
                              !.room = Absent, !.read = pend.roomsForUser]
    /\ pend' = NoPend
    /\ UNCHANGED <<up, timers, scan, connected>>

\* empty(room) up to the answers of the scan and the sscans
emptyRead(inst, room) ==
    /\ inst \in up
    /\ pend.op = "none"
    /\ LET roomKeys == keysMatchingPattern(store, RoomPattern(room))
       IN pend' = [NoPend EXCEPT !.op = "empty", !.inst = inst, !.room = room,
                                 !.roomKeys = roomKeys,
                                 !.sparkIds = BagToSet(setMembersForKeys(store, roomKeys)),
                                 !.before = store]
    /\ last' = [NoLast EXCEPT !.op = "emptyRead", !.inst = inst, !.room = room]
    /\ UNCHANGED <<store, up, timers, scan, connected>>

\* removeData: the batch built from the keys and members read, and exec
emptyWrite ==
    /\ pend.op = "empty"
    /\ store' = IF DelRejected(pend.roomKeys) THEN store
                ELSE EmptyBatch(store, pend.room, pend.roomKeys, pend.sparkIds)
    /\ last' = [NoLast EXCEPT !.op = "empty", !.room = pend.room, !.read = pend.sparkIds,
                              !.err = DelRejected(pend.roomKeys)]
    /\ pend' = NoPend
    /\ UNCHANGED <<up, timers, scan, connected>>

\* An add whose batch reaches the store between the read and the write of the
\* del of the same spark or of the empty of the same room.
addBetween(inst, id, room) ==
    /\ inst \in up
    /\ Home(id) = inst
    /\ pend.op # "none"
    /\ Len(pend.adds) < MaxInterleavedAdds
    /\ (pend.op = "del") => (id = pend.id)
    /\ (pend.op = "empty") => (room = pend.room)
    /\ store' = AddBatch(store, inst, id, room)
    /\ last' = [NoLast EXCEPT !.op = "add", !.inst = inst, !.id = id, !.room = room]
    /\ pend' = [pend EXCEPT !.adds = Append(@, [inst |-> inst, id |-> id, room |-> room])]
    /\ UNCHANGED <<up, timers, scan, connected>>

NextRace ==
    \/ \E inst \in Instances, id \in RaceSparks, room \in RaceRooms :
          pend.op = "none" /\ add(inst, id, room)
    \/ \E inst \in Instances, id \in RaceSparks : delRead(inst, id)
    \/ delWrite(UndefinedRoom)
    \/ \E inst \in Instances, room \in RaceRooms : emptyRead(inst, room)
    \/ emptyWrite
    \/ \E inst \in Instances, id \in RaceSparks, room \in RaceRooms :
          addBetween(inst, id, room)

SpecRace == Init /\ [][NextRace]_vars

----------------------------------------------------------------------------
(* Properties *)

InClients(st, id, room) == BagIn(id, ClientsResult(st, room))

\* The rooms that have a RoomMembershipSet key on at least one instance.
RoomNames == Rooms \cup AbsentTexts
RoomsWithKey(st) ==
    {r \in RoomNames : \E inst \in Instances : roomSparkSetKey(inst, r) \in DOMAIN st}

\* The union of the RoomMembershipSets of a room over all instances.
MembersOfRoom(st, room) ==
    UNION {Smembers(st, roomSparkSetKey(inst, room)) : inst \in Instances}

IsMember(st, id, room) == room \in GetResult(st, id) /\ InClients(st, id, room)

Intervening(l) == l.op \in {"del", "empty", "clear", "expire"}

\* C1: once add(S,R) has completed with success, get(S) contains R and
\* clients(R) contains S, and this stays so over every step that is not a
\* del, an empty, a clear or a TTL expiry.
C1_AddThenMember ==
    [][\A s \in Sparks, r \in Rooms :
          (\/ last'.op = "add" /\ ~last'.err /\ last'.id = s /\ last'.room = r
           \/ IsMember(store, s, r) /\ ~Intervening(last'))
          => IsMember(store', s, r)]_vars

\* s1 was added to r1 on its instance and then s2 to x:r1 on the other: the
\* later add leaves the earlier membership in place, and both are there.
C1_Witness ==
    /\ last.op = "add" /\ last.id = S2 /\ last.room = XR1
    /\ IsMember(store, S1, R1)
    /\ IsMember(store, S2, XR1)

\* C2: after del(S,R) with a room, get(S) does not contain R, clients(R)
\* does not contain S, and every other membership of S is as it was.
C2_DelRemovesFromBoth ==
    [][(last'.op = "del" /\ last'.room # Absent /\ ~last'.err)
          => LET s == last'.id
                 r == last'.room
             IN /\ r \notin GetResult(store', s)
                /\ ~InClients(store', s, r)
                /\ \A r2 \in Rooms \ {r} :
                      /\ (r2 \in GetResult(store', s)) = (r2 \in GetResult(store, s))
                      /\ (s \in MembersOfRoom(store', r2)) = (s \in MembersOfRoom(store, r2))
      ]_vars

\* C3: after del(S, absent), get(S) is empty and S is in clients(R) for no
\* room R that get(S) listed before.
C3_DelAllRemovesEverywhere ==
    (last.op = "del" /\ last.room = Absent /\ ~last.err)
        => /\ GetResult(store, last.id) = {}
           /\ \A r \in last.read : ~InClients(store, last.id, r)

\* C4: the answer of clients(R) is the union of the RoomMembershipSets of R
\* over all server instances.
C4_ClientsIsUnionOverInstances ==
    (last.op = "clients" /\ ~last.err)
        => BagToSet(last.ids) = MembersOfRoom(store, last.room)

\* C5 as stated: after empty(R) with success, clients(R) is empty and no
\* spark's get contains R.
C5_EmptyLeavesNoTrace ==
    (last.op = "empty" /\ ~last.err)
        => /\ BagToSet(ClientsResult(store, last.room)) = {}
           /\ \A s \in Sparks : last.room \notin GetResult(store, s)

\* C5, amended: after empty(R) with success, clients(R) is empty on every
\* instance, and get of no spark that empty read as a member of R contains R.
C5_EmptyRemovesMembersRead ==
    (last.op = "empty" /\ ~last.err)
        => /\ BagToSet(ClientsResult(store, last.room)) = {}
           /\ \A inst \in Instances :
                 roomSparkSetKey(inst, last.room) \notin DOMAIN store
           /\ \A s \in last.read : last.room \notin GetResult(store, s)

\* empty(r1) removed both sparks, one of each instance, from r1.
C5_Witness ==
    /\ last.op = "empty" /\ ~last.err /\ last.room = R1
    /\ last.read = {S1, S2}
    /\ sparkRoomSetKey(S2) \in DOMAIN store

C7_GetAllIsRoomNames ==
    (last.op = "get" /\ last.id = Absent /\ ~last.err)
        => last.names = RoomsWithKey(store)

UnderNamespace(k) ==
    /\ Len(k) > Len(namespace)
    /\ SubSeq(k, 1, Len(namespace) + 1) = namespace \o <<Colon>>

\* C8: after clear() with success no key under the namespace is in the
\* store, and every key outside the namespace is as it was.
C8_ClearRemovesNamespaceOnly ==
    [][(last'.op = "clear" /\ ~last'.err)
          => /\ \A k \in DOMAIN store' : ~UnderNamespace(k)
             /\ \A k \in DOMAIN store :
                   ~UnderNamespace(k) => k \in DOMAIN store' /\ store'[k] = store[k]
             /\ DOMAIN store' \subseteq DOMAIN store
      ]_vars

\* clear() ran on a store that held room keys of both instances and spark
\* keys; the two keys outside the namespace are all that is left.
C8_Witness ==
    /\ last.op = "clear" /\ ~last.err
    /\ DOMAIN store = {UnrelatedKey, OtherNamespaceKey}

\* The ids the forwarding primitive was called with.
ForwardedIds(calls) == UNION {BagToSet(calls[i].ids) : i \in 1..Len(calls)}

\* C9: broadcast to a non-empty list of rooms forwards transformer(data) to
\* exactly the sparks of clients(R1) \cup ... \cup clients(Rn) that are not
\* in except.
C9_BroadcastRooms ==
    (last.op = "broadcast" /\ Len(last.rooms) > 0)
        => /\ ForwardedIds(last.calls) =
                 UNION {BagToSet(ClientsResult(store, last.rooms[i])) :
                           i \in 1..Len(last.rooms)} \ last.except
           /\ \A i \in 1..Len(last.calls) :
                 last.calls[i].data = Transform(last.transformer, last.data)

\* A broadcast to r1 and x:r1 with s1 excepted, both sparks being members:
\* s2 alone is forwarded to, with the transformed text.
C9_Witness ==
    /\ last.op = "broadcast" /\ last.rooms = <<XR1, R1>> /\ last.except = {S1}
    /\ last.transformer = "custom"
    /\ InClients(store, S1, R1)
    /\ InClients(store, S2, XR1)
    /\ Len(last.calls) = 1
    /\ ForwardedIds(last.calls) = {S2}
    /\ last.calls[1].data = Str(<<"y", "z", "_transformed">>)

\* C10: broadcast with no rooms forwards to every spark that has a
\* SparkRoomSet key in the namespace, and to no other id.
C10_BroadcastAll ==
    (last.op = "broadcast" /\ Len(last.rooms) = 0)
        => /\ ForwardedIds(last.calls) =
                 {s \in Sparks : sparkRoomSetKey(s) \in DOMAIN store}
           /\ \A i \in 1..Len(last.calls) :
                 last.calls[i].data = Transform(last.transformer, last.data)

\* A broadcast with no rooms while both sparks, of different instances, have
\* a key: one call with both ids and the first element of the data.
C10_Witness ==
    /\ last.op = "broadcast" /\ last.rooms = <<>> /\ last.transformer = "default"
    /\ Len(last.calls) = 1
    /\ ForwardedIds(last.calls) = {S1, S2}
    /\ last.calls[1].data = Str(<<"x">>)

\* C11: no id of except is handed to the forwarding primitive by broadcast,
\* with rooms given and with no rooms given.
C11_ExceptNeverForwarded ==
    (last.op = "broadcast")
        => ForwardedIds(last.calls) \cap last.except = {}

\* The payload the default transformer is specified to give: the first
\* element of array-shaped data, the data itself otherwise.
FirstElementOrSelf(data) ==
    IF data.kind = "array"
    THEN IF data.items = <<>> THEN Undefined ELSE Str(data.items[1])
    ELSE data

\* C12: a broadcast without a transformer forwards the first element of
\* array-shaped data and any other data unchanged, the same payload in every
\* forwarding call.
C12_DefaultTransformerPayload ==
    (last.op = "broadcast" /\ last.transformer = "default")
        => \A i \in 1..Len(last.calls) :
              last.calls[i].data = FirstElementOrSelf(last.data)

\* The RoomMembershipSet keys of an instance, by construction of their names.
RoomKeysOf(inst) == {roomSparkSetKey(inst, r) : r \in Rooms}

\* C13: every room key of a crashed instance is gone from the store within
\* one room-key TTL of its last refresh, whatever the running instances do,
\* and from then on clients(R) holds none of the crashed instance's sparks.
C13_CrashedKeysLapse ==
    \A inst \in Instances \ up :
        /\ \A k \in RoomKeysOf(inst) \cap DOMAIN store :
              /\ store[k].ttl # NoTTL
              /\ store[k].ttl + timers.down[inst] <= roomSparkSetTTLSeconds
        /\ timers.down[inst] >= roomSparkSetTTLSeconds
              => \A s \in Sparks, r \in Rooms :
                    Home(s) = inst => ~InClients(store, s, r)

\* Server A has been down for one room-key TTL and its key of r1 lapsed in the
\* last tick, while server B runs and its key of r1 still holds s2.
C13_Witness ==
    /\ InstA \notin up
    /\ timers.down[InstA] = roomSparkSetTTLSeconds
    /\ last.op = "tick"
    /\ roomSparkSetKey(InstA, R1) \in last.names
    /\ InClients(store, S2, R1)

\* C14: while a server runs and sweeps on schedule, a spark it added to a room
\* and that no del, empty or clear removed stays in clients(R): the room key
\* does not lapse.
C14_LiveKeysNeverLapse ==
    [][\A s \in Sparks, r \in Rooms :
          (/\ Home(s) \in up'
           /\ s \in Smembers(store, roomSparkSetKey(Home(s), r))
           /\ ~(last'.op = "del" /\ last'.id = s)
           /\ last'.op \notin {"empty", "clear"})
          => /\ roomSparkSetKey(Home(s), r) \in DOMAIN store'
             /\ InClients(store', s, r)
      ]_vars

\* The sweep of server A is due while its key of r1, armed by the sweep
\* before, has the TTL less the sweep period left, and s1 is in r1.
C14_Witness ==
    /\ InstA \in up
    /\ timers.sweep[InstA] = 0
    /\ roomSparkSetKey(InstA, R1) \in DOMAIN store
    /\ store[roomSparkSetKey(InstA, R1)].ttl * 1000
          = roomSparkSetTTLSeconds * 1000 - roomRefreshIntervalMs
    /\ InClients(store, S1, R1)

\* C15: the spark key TTL is ceil(h * 1.2) seconds for the heartbeat interval
\* h the transport is configured with, and the key of a connected spark whose
\* heartbeats come every h does not lapse as time passes.
C15_SparkTTLCoversHeartbeat ==
    [][/\ sparkRoomSetTTLSeconds = CeilSecondsTimesDrift(timers.ping)
       /\ last'.op = "tick"
             => \A s \in Sparks :
                   (Home(s) \in up /\ sparkRoomSetKey(s) \in DOMAIN store)
                       => sparkRoomSetKey(s) \in DOMAIN store'
      ]_vars

\* C16: every RoomMembershipSet key and every SparkRoomSet key in the store
\* carries a finite time-to-live.
C16_KeysCarryTTL ==
    \A k \in DOMAIN store :
        (GlobMatch(AllRoomsPattern, k) \/ GlobMatch(AllSparksPattern, k))
            => store[k].ttl # NoTTL

\* After adds and a del that left s1 in x:r1 only, the keys that remain, a
\* room key and a spark key, have their TTLs.
C16_Witness ==
    /\ last.op = "del" /\ last.id = S1 /\ last.room = R1
    /\ Smembers(store, sparkRoomSetKey(S1)) = {XR1}
    /\ store[sparkRoomSetKey(S1)].ttl = sparkRoomSetTTLSeconds
    /\ roomSparkSetKey(InstA, XR1) \in DOMAIN store
    /\ store[roomSparkSetKey(InstA, XR1)].ttl = roomSparkSetTTLSeconds

\* C17: when a round trip of a public operation fails, the operation's
\* callback is called with an error and with no result.
C17_ErrorsReachCaller ==
    (last.fault # "none")
        => /\ last.called
           /\ last.err
           /\ last.names = {} /\ last.ids = EmptyBag
           /\ last.calls = <<>> /\ ~last.flag

\* What a command that succeeded leaves in the store.
Holds(st, c) ==
    CASE c.cmd = "sadd" -> c.arg \in Smembers(st, c.key)
      [] c.cmd = "srem" -> c.arg \notin Smembers(st, c.key)
      [] c.cmd = "expire" -> (c.key \in DOMAIN st => st[c.key].ttl = c.arg)
      [] c.cmd = "del" -> c.key \cap DOMAIN st = {}

\* C18: when commands of a batch of add, del or empty fail, the callback is
\* called once with one error that names every failing command, success is
\* reported only when none failed, and what the other commands of the batch
\* did is in the store.
C18_BatchErrorsCombined ==
    [][(last'.op \in {"add", "del", "empty"} /\ last'.fault = "none")
          => /\ last'.called
             /\ ~last'.err => last'.failing = {}
             /\ last'.failing # {}
                   => /\ last'.err
                      /\ Len(last'.message) = Cardinality(last'.failing)
                      /\ {last'.message[i] : i \in 1..Len(last'.message)}
                            = {<<last'.cmds[i].cmd, i>> : i \in last'.failing}
                      /\ \A i \in (1..Len(last'.cmds)) \ last'.failing :
                            Holds(store', last'.cmds[i])
      ]_vars

\* An add whose expire of the room key and sadd to the spark key failed: one
\* error with the two, the spark in the room key, the room not in the spark key.
C18_Witness ==
    /\ last.op = "add" /\ last.id = S1 /\ last.room = R1
    /\ last.failing = {2, 3}
    /\ last.err
    /\ last.message = <<(<<"expire", 2>>), (<<"sadd", 3>>)>>
    /\ S1 \in Smembers(store, roomSparkSetKey(InstA, R1))
    /\ R1 \notin Smembers(store, sparkRoomSetKey(S1))

\* C19: the key scan, whatever its batch size, answers every key matching
\* the pattern that was there for the whole scan, no key that does not match,
\* and each key once, also when the store answered a key in two batches.
C19_ScanReturnsEachKeyOnce ==
    (last.op = "scan")
        => /\ \A k \in scan.atStart :
                 GlobMatch(scan.pattern, k) => BagIn(k, scan.keys)
           /\ \A k \in BagToSet(scan.keys) :
                 /\ GlobMatch(scan.pattern, k)
                 /\ CopiesIn(k, scan.keys) = 1

\* All the ids the forwarding primitive was called with, each as many times
\* as it was handed over.
RECURSIVE ForwardedBag(_)
ForwardedBag(calls) ==
    IF calls = <<>> THEN EmptyBag
    ELSE calls[1].ids (+) ForwardedBag(Tail(calls))

\* The requested rooms, by their place in the list, that the spark is in.
RequestedRoomsOf(st, rooms, id) ==
    {i \in 1..Len(rooms) : id \in MembersOfRoom(st, rooms[i])}

\* How many times clients answers the spark over the requested rooms.
RECURSIVE TimesInClients(_, _, _)
TimesInClients(st, rooms, id) ==
    IF rooms = <<>> THEN 0
    ELSE CopiesIn(id, ClientsResult(st, Head(rooms))) + TimesInClients(st, Tail(rooms), id)

\* The first half of C20: the forwarded ids are the answers of clients over
\* the requested rooms, put end to end, less the ids of except.
ForwardedIsConcatenation ==
    (last.op = "broadcast" /\ Len(last.rooms) > 0)
        => \A s \in Sparks :
              CopiesIn(s, ForwardedBag(last.calls)) =
                 IF s \in last.except THEN 0
                 ELSE TimesInClients(store, last.rooms, s)

\* C20: in a broadcast to a list of rooms a spark that is a member of k of
\* the requested rooms and not in except is k times among the forwarded ids,
\* a spark in except not at all.
C20_ForwardedOncePerRoom ==
    (last.op = "broadcast" /\ Len(last.rooms) > 0)
        => \A s \in Sparks :
              CopiesIn(s, ForwardedBag(last.calls)) =
                 IF s \in last.except THEN 0
                 ELSE Cardinality(RequestedRoomsOf(store, last.rooms, s))

\* What goes on once client operations have ceased.
BackgroundOps == {"init", "sweep", "heartbeat", "tick"}

\* The two indices agree on a store, for some sparks and rooms.
IndicesAgreeOn(st, sparks, rooms) ==
    \A s \in sparks, r \in rooms :
        (\E inst \in Instances : s \in Smembers(st, roomSparkSetKey(inst, r)))
            <=> (r \in Smembers(st, sparkRoomSetKey(s)))

IndicesAgree(st) == IndicesAgreeOn(st, Sparks, Rooms)

\* C21: once client operations have ceased (sweeps of running servers,
\* heartbeats of connected sparks and the lapse of keys go on), eventually
\* and from then on a spark is in a RoomMembershipSet of a room on some
\* instance exactly when the room is in its SparkRoomSet, and clients(R)
\* answers no spark whose connection has closed.
C21_IndicesConverge ==
    <>[](last.op \in BackgroundOps)
        => <>[](/\ IndicesAgree(store)
                /\ \A s \in Sparks \ connected, r \in Rooms : ~InClients(store, s, r))

\* The keys del(id) with no room may change: the room keys of the rooms it
\* read from the spark's set, and the spark's own key.
DelAllFootprint(l) ==
    {roomSparkSetKey(inst, r) : inst \in Instances, r \in l.read}
        \cup {sparkRoomSetKey(l.id)}

\* C22: del(S) with no room changes only the RoomMembershipSets of the rooms
\* that SparkRoomSet[S] listed when it was read and S's own SparkRoomSet key;
\* every other key is as it was.
C22_DelAllFrame ==
    [][(last'.op = "del" /\ last'.room = Absent /\ ~last'.err)
          => \A k \in (DOMAIN store) \cup (DOMAIN store') :
                k \notin DelAllFootprint(last')
                    => /\ k \in DOMAIN store
                       /\ k \in DOMAIN store'
                       /\ store'[k] = store[k]]_vars

\* del(id) with no room and empty(room) as one step on a store.
DelAllAtOnce(st, inst, id) ==
    DelAllBatch(st, inst, id, UndefinedRoom, Smembers(st, sparkRoomSetKey(id)))

EmptyAtOnce(st, room) ==
    LET roomKeys == keysMatchingPattern(st, RoomPattern(room))
        sparkIds == BagToSet(setMembersForKeys(st, roomKeys))
    IN IF DelRejected(roomKeys) THEN st ELSE EmptyBatch(st, room, roomKeys, sparkIds)

AtOnce(st, p) ==
    IF p.op = "del" THEN DelAllAtOnce(st, p.inst, p.id) ELSE EmptyAtOnce(st, p.room)

\* The stores the two serial orders of the pending operation and the add
\* made meanwhile lead to, from the store the operation read.
SerialOutcomes(p) ==
    LET a == p.adds[1]
    IN {AddBatch(AtOnce(p.before, p), a.inst, a.id, a.room),
        AtOnce(AddBatch(p.before, a.inst, a.id, a.room), p)}

\* C23: when an add of the same spark (for del with no room) or of the same
\* room (for empty) reaches the store between the read and the write of the
\* operation, the store after both equals the store of one of the two serial
\* orders, and the two indices agree for the spark, or the room, involved.
C23_InterleavedAddIsSerial ==
    [][(pend.op # "none" /\ pend'.op = "none" /\ Len(pend.adds) = 1)
          => /\ store' \in SerialOutcomes(pend)
             /\ IndicesAgreeOn(store',
                               IF pend.op = "del" THEN {pend.id} ELSE RaceSparks,
                               IF pend.op = "del" THEN RaceRooms ELSE {pend.room})]_vars

\* C24: clients(R), isEmpty(R) and empty(R) select only the keys whose room
\* is exactly R: clients(R) answers only members of R, isEmpty(R) is false
\* only when R has a key on some instance, and empty(R) takes no spark out
\* of another room.
C24_ExactRoomSelected ==
    [][/\ (last'.op = "clients" /\ ~last'.err)
            => BagToSet(last'.ids) \subseteq MembersOfRoom(store, last'.room)
       /\ (last'.op = "isEmpty" /\ ~last'.err /\ ~last'.flag)
            => last'.room \in RoomsWithKey(store)
       /\ (last'.op = "empty" /\ ~last'.err)
            => \A r \in Rooms \ {last'.room} :
                  MembersOfRoom(store, r) \subseteq MembersOfRoom(store', r)]_vars

\* C25: empty(R) when no key of R exists on any instance, and clear() when
\* no key exists under the namespace, report no error and leave the store as
\* it was.
C25_NothingToDeleteSucceeds ==
    [][(\/ last'.op = "empty" /\ keysMatchingPattern(store, RoomPattern(last'.room)) = {}
        \/ last'.op = "clear" /\ keysMatchingPattern(store, NamespacePattern) = {})
          => (~last'.err /\ store' = store)]_vars

====
